---- MODULE Spec2Model ----
(***************************************************************************)
(* State-machine model of src/src/App.tsx (miniSocialMediaTS): the App     *)
(* component's React state, the two localStorage keys it reads and writes, *)
(* and the FileReader callbacks it leaves in flight.                       *)
(*                                                                         *)
(* A JavaScript string is a sequence of one-character strings, so that     *)
(* String.prototype.trim is computed and not assumed.  An object is the    *)
(* record of what a read of each of its properties returns; a property     *)
(* that is absent reads as Undefined.                                      *)
(***************************************************************************)
EXTENDS Integers, Sequences, FiniteSets, TLC

VARIABLES
    posts,          \* useState<Post[]>            (App.tsx:18)
    editingId,      \* useState<string | null>     (App.tsx:28)
    title,          \* useState("")                (App.tsx:31)
    comment,        \* useState("")                (App.tsx:32)
    imageFile,      \* useState<File | null>       (App.tsx:33)
    imagePreview,   \* useState<string|undefined>  (App.tsx:34)
    theme,          \* useState<"light" | "dark">  (App.tsx:39)
    storePosts,     \* localStorage[STORAGE_KEY]
    storeTheme,     \* localStorage[THEME_KEY]
    readers,        \* files whose FileReader has not called back yet
    crashed,        \* "no", or where an uncaught exception unmounted the tree: "render", "effect"
    last,           \* the event handled last, with its arguments
    events          \* how many events have been handled since the page was first opened

vars == <<posts, editingId, title, comment, imageFile, imagePreview, theme,
          storePosts, storeTheme, readers, crashed, last, events>>

----------------------------------------------------------------------------
(* Bounds of the model *)

\* a run of the model handles this many events (user actions, reader callbacks,
\* page reloads) and stops
MaxEvents == 5

----------------------------------------------------------------------------
(* Values *)

Null == "null"
Undefined == "undefined"

\* the File objects a user can pick, and the data URL FileReader yields for each
Files == {"f1", "f2"}
Encode(f) == IF f = "f1" THEN "data:image/png;base64,f1" ELSE "data:image/png;base64,f2"

\* the strings cryptoRandomId can return, and the values Date.now() can return
Ids == {"id1", "id2"}
Times == {1, 2}

\* one glyph of the ten of EMOJIS: handleEmojiClick treats them all alike
EMOJIS == {"fire"}

\* the placeholder title "Sin titulo", written without its accent
SinTitulo == <<"S", "i", "n", " ", "t", "i", "t", "u", "l", "o">>

\* what the user types into the title field and into the comment field
TitleInputs == {<<>>, <<" ", "a", " ">>}
CommentInputs == {<<" ">>, <<" ", "a">>}

\* what the theme key can hold when the page is first opened
BootThemes == {Null, "light", "dark", "blue"}

----------------------------------------------------------------------------
(* String.prototype.trim *)

IsSpace(c) == c = " "

RECURSIVE TrimStart(_)
TrimStart(s) ==
    IF s = <<>> THEN <<>>
    ELSE IF IsSpace(Head(s)) THEN TrimStart(Tail(s)) ELSE s

RECURSIVE TrimEnd(_)
TrimEnd(s) ==
    IF s = <<>> THEN <<>>
    ELSE IF IsSpace(s[Len(s)]) THEN TrimEnd(SubSeq(s, 1, Len(s) - 1)) ELSE s

Trim(s) == TrimEnd(TrimStart(s))

----------------------------------------------------------------------------
(* JSON.stringify / JSON.parse of the post list *)

\* a property whose value is undefined is left out of the text
StringifyPost(p) ==
    IF p.imageDataUrl = Undefined
    THEN [id |-> p.id, title |-> p.title, comment |-> p.comment,
          createdAt |-> p.createdAt]
    ELSE [id |-> p.id, title |-> p.title, comment |-> p.comment,
          createdAt |-> p.createdAt, imageDataUrl |-> p.imageDataUrl]

Stringify(ps) ==
    [kind |-> "array", items |-> [i \in 1..Len(ps) |-> StringifyPost(ps[i])]]

\* a property the text does not have reads as undefined
ParsePost(o) ==
    [id |-> o.id, title |-> o.title, comment |-> o.comment,
     imageDataUrl |-> IF "imageDataUrl" \in DOMAIN o THEN o.imageDataUrl ELSE Undefined,
     createdAt |-> o.createdAt]

Parse(raw) == [i \in 1..Len(raw.items) |-> ParsePost(raw.items[i])]

\* what the posts key can hold when the page is first opened: nothing, the
\* empty string, text that is not JSON, JSON that is not a list, the empty list,
\* and a list that an earlier session wrote
StoreValue(k) == [kind |-> k, items |-> <<>>]
EarlierSession ==
    Stringify(<<[id |-> "id2", title |-> <<"a">>, comment |-> <<"a">>,
                 imageDataUrl |-> Undefined, createdAt |-> 2],
                [id |-> "id1", title |-> SinTitulo, comment |-> <<>>,
                 imageDataUrl |-> Encode("f1"), createdAt |-> 1]>>)
BootStores ==
    {StoreValue(k) :
       k \in {"absent", "empty", "garbage", "null", "number", "object", "array"}}
    \cup {EarlierSession}

----------------------------------------------------------------------------
(* Startup: the two useState initializers, the first render, the mount effects *)

\* raw ? JSON.parse(raw) as Post[] : [], and [] when JSON.parse throws.  For text
\* that parses to null, a number or an object the result is that value, not a
\* list: IsList tells, and the model writes <<>> in its place.
IsList(raw) == raw.kind \notin {"null", "number", "object"}

LoadPosts(raw) == IF raw.kind = "array" THEN Parse(raw) ELSE <<>>

\* localStorage.getItem(THEME_KEY) ?? "light"
LoadTheme(raw) == IF raw = Null THEN "light" ELSE raw

\* posts.length and posts.map in the render throw on what is not a list
RenderThrows(raw) == ~IsList(raw)

Ev(op, arg, flag) == [op |-> op, arg |-> arg, flag |-> flag]

\* one more event is handled
Count == events < MaxEvents /\ events' = events + 1

\* The state a page load leaves, from what the store holds.  A render that throws
\* runs no effect.  Otherwise the mount effects run in order: the posts write, then
\* the theme write; a setItem that throws ends the effects and unmounts the tree.
\* okP and okT tell whether each setItem succeeds.
Startup(sp, st, okP, okT) ==
    [posts      |-> LoadPosts(sp),
     theme      |-> LoadTheme(st),
     storePosts |-> IF ~RenderThrows(sp) /\ okP THEN Stringify(LoadPosts(sp)) ELSE sp,
     storeTheme |-> IF ~RenderThrows(sp) /\ okP /\ okT THEN LoadTheme(st) ELSE st,
     crashed    |-> IF RenderThrows(sp) THEN "render"
                    ELSE IF okP /\ okT THEN "no" ELSE "effect"]

Init ==
    \E sp \in BootStores, st \in BootThemes, okP \in BOOLEAN, okT \in BOOLEAN :
        LET b == Startup(sp, st, okP, okT) IN
        /\ posts = b.posts
        /\ theme = b.theme
        /\ storePosts = b.storePosts
        /\ storeTheme = b.storeTheme
        /\ crashed = b.crashed
        /\ editingId = Null
        /\ title = <<>>
        /\ comment = <<>>
        /\ imageFile = Null
        /\ imagePreview = Undefined
        /\ readers = {}
        /\ last = Ev("load", Null, TRUE)
        /\ events = 0

\* the user reloads the page: a fresh instance on the same store
Reload(okP, okT) ==
    LET b == Startup(storePosts, storeTheme, okP, okT) IN
    /\ posts' = b.posts
    /\ theme' = b.theme
    /\ storePosts' = b.storePosts
    /\ storeTheme' = b.storeTheme
    /\ crashed' = b.crashed
    /\ editingId' = Null
    /\ title' = <<>>
    /\ comment' = <<>>
    /\ imageFile' = Null
    /\ imagePreview' = Undefined
    /\ readers' = {}
    /\ last' = Ev("load", Null, TRUE)
    /\ Count

----------------------------------------------------------------------------
(* Effects *)

\* useEffect[posts]: localStorage.setItem(STORAGE_KEY, JSON.stringify(posts));
\* setItem throws when the quota is exceeded, nothing catches it
PostsEffect(ps, ok) ==
    /\ storePosts' = IF ok THEN Stringify(ps) ELSE storePosts
    /\ crashed' = IF ok THEN "no" ELSE "effect"

\* useEffect[theme]: localStorage.setItem(THEME_KEY, theme)
ThemeEffect(t, ok) ==
    /\ storeTheme' = IF ok THEN t ELSE storeTheme
    /\ crashed' = IF ok THEN "no" ELSE "effect"

----------------------------------------------------------------------------
(* The form *)

\* onChange of the title input
SetTitle(v) ==
    /\ crashed = "no"
    /\ Count
    /\ title' = v
    /\ last' = Ev("setTitle", Null, TRUE)
    /\ UNCHANGED <<posts, editingId, comment, imageFile, imagePreview, theme,
                   storePosts, storeTheme, readers, crashed>>

\* onChange of the comment textarea
SetComment(v) ==
    /\ crashed = "no"
    /\ Count
    /\ comment' = v
    /\ last' = Ev("setComment", Null, TRUE)
    /\ UNCHANGED <<posts, editingId, title, imageFile, imagePreview, theme,
                   storePosts, storeTheme, readers, crashed>>

\* an emoji that already ends the comment is not added again
AppendEmoji_Dedup(c, e) ==
    IF c # <<>> /\ c[Len(c)] = e THEN c ELSE Append(c, e)

\* setComment((c) => c + e)
AppendEmoji(c, e) == Append(c, e)

handleEmojiClick(e) ==
    /\ crashed = "no"
    /\ Count
    /\ comment' = AppendEmoji(comment, e)
    /\ last' = Ev("handleEmojiClick", e, TRUE)
    /\ UNCHANGED <<posts, editingId, title, imageFile, imagePreview, theme,
                   storePosts, storeTheme, readers, crashed>>

\* useEffect[imageFile], the preview it leaves at once: undefined for no file, the
\* preview as it was while the reader of a file is at work
PreviewAfterSelect(f, preview) == IF f = Null THEN Undefined ELSE preview

\* useEffect[imageFile], the readers at work after it: one more for a file
ReadersAfterSelect(f, rs) == IF f = Null THEN rs ELSE rs \cup {f}

\* handleFileChange: the change event brings a new File object, or none when the
\* dialog is dismissed.  f names an object no reader holds.
handleFileChange(f) ==
    /\ crashed = "no"
    /\ Count
    /\ f # imageFile
    /\ f \notin readers
    /\ imageFile' = f
    /\ imagePreview' = PreviewAfterSelect(f, imagePreview)
    /\ readers' = ReadersAfterSelect(f, readers)
    /\ last' = Ev("handleFileChange", f, TRUE)
    /\ UNCHANGED <<posts, editingId, title, comment, theme, storePosts, storeTheme,
                   crashed>>

\* reader.onload: setImagePreview(reader.result)
PreviewAfterOnload(f) == Encode(f)

ReaderOnload(f) ==
    /\ crashed = "no"
    /\ Count
    /\ f \in readers
    /\ readers' = readers \ {f}
    /\ imagePreview' = PreviewAfterOnload(f)
    /\ last' = Ev("onload", f, TRUE)
    /\ UNCHANGED <<posts, editingId, title, comment, imageFile, theme, storePosts,
                   storeTheme, crashed>>

\* the read fails: no onerror handler is set, nothing is called
ReaderError(f) ==
    /\ crashed = "no"
    /\ Count
    /\ f \in readers
    /\ readers' = readers \ {f}
    /\ last' = Ev("onerror", f, TRUE)
    /\ UNCHANGED <<posts, editingId, title, comment, imageFile, imagePreview, theme,
                   storePosts, storeTheme, crashed>>

\* the "Limpiar imagen" button
ClearImage ==
    /\ crashed = "no"
    /\ Count
    /\ imageFile' = Null
    /\ imagePreview' = Undefined
    /\ last' = Ev("clearImage", Null, TRUE)
    /\ UNCHANGED <<posts, editingId, title, comment, theme, storePosts, storeTheme,
                   readers, crashed>>

\* clearForm without its setEditingId(null)
clearForm_KeepsEditing ==
    /\ title' = <<>>
    /\ comment' = <<>>
    /\ imageFile' = Null
    /\ imagePreview' = Undefined
    /\ editingId' = editingId

\* clearForm without its setImageFile(null)
clearForm_KeepsFile ==
    /\ title' = <<>>
    /\ comment' = <<>>
    /\ imageFile' = imageFile
    /\ imagePreview' = Undefined
    /\ editingId' = Null

\* clearForm: the five setters; useEffect[imageFile] then sets the preview to
\* undefined once more
clearForm ==
    /\ title' = <<>>
    /\ comment' = <<>>
    /\ imageFile' = Null
    /\ imagePreview' = Undefined
    /\ editingId' = Null

\* the "Limpiar campos" button
ClearFormClick ==
    /\ crashed = "no"
    /\ Count
    /\ clearForm
    /\ last' = Ev("clearForm", editingId, TRUE)
    /\ UNCHANGED <<posts, theme, storePosts, storeTheme, readers, crashed>>

----------------------------------------------------------------------------
(* Posts *)

\* the title trimmed, without the placeholder
TrimmedTitle_NoPlaceholder(t) == Trim(t)

\* const trimmedTitle = title.trim() || "Sin titulo"
TrimmedTitle(t) == IF Trim(t) = <<>> THEN SinTitulo ELSE Trim(t)

\* the test made on the comment as typed, not trimmed
NothingToAdd_Untrimmed(c, preview) == c = <<>> /\ preview = Undefined

\* if (!trimmedComment && !imagePreview): nothing to add
NothingToAdd(c, preview) == Trim(c) = <<>> /\ preview = Undefined

\* { ...p, title: trimmedTitle, comment: trimmedComment, imageDataUrl: imagePreview }
\* for the post whose id is editingId, p for any other
UpdatePost(p, id, t, c, preview) ==
    IF p.id = id
    THEN [id |-> p.id, title |-> TrimmedTitle(t), comment |-> Trim(c),
          imageDataUrl |-> preview, createdAt |-> p.createdAt]
    ELSE p

\* the edited post moved to the front of the list
UpdatePosts_MoveToFront(ps, id, t, c, preview) ==
    [i \in 1..Len(SelectSeq(ps, LAMBDA x : x.id = id)) |->
        UpdatePost(SelectSeq(ps, LAMBDA x : x.id = id)[i], id, t, c, preview)]
    \o SelectSeq(ps, LAMBDA x : x.id # id)

\* prev.map(...)
UpdatePosts(ps, id, t, c, preview) ==
    [i \in 1..Len(ps) |-> UpdatePost(ps[i], id, t, c, preview)]

\* const newPost: Post = { id: cryptoRandomId(), ..., createdAt: Date.now() }
NewPost(id, t, c, preview, now) ==
    [id |-> id, title |-> TrimmedTitle(t), comment |-> Trim(c),
     imageDataUrl |-> preview, createdAt |-> now]

\* the new post put last: [...p, newPost]
Prepend_AtEnd(p, ps) == Append(ps, p)

\* [newPost, ...p]
Prepend(p, ps) == <<p>> \o ps

\* the early return made through clearForm
Reject_ClearsForm ==
    /\ clearForm
    /\ UNCHANGED <<posts, theme, storePosts, storeTheme, readers, crashed>>

\* the early return of handleAddOrUpdate: the comment field is focused, no state
\* is set
Reject ==
    UNCHANGED <<posts, editingId, title, comment, imageFile, imagePreview, theme,
                storePosts, storeTheme, readers, crashed>>

\* handleAddOrUpdate, with the clearForm it calls and the posts effect that
\* follows.  newId is what cryptoRandomId returns, now what Date.now() returns
\* (neither is read on the other two paths), ok whether setItem succeeds.
handleAddOrUpdate(newId, now, ok) ==
    /\ crashed = "no"
    /\ Count
    /\ IF NothingToAdd(comment, imagePreview)
       THEN /\ Reject
            /\ last' = Ev("handleAddOrUpdate", "rejected", TRUE)
       ELSE IF editingId # Null
       THEN /\ posts' = UpdatePosts(posts, editingId, title, comment, imagePreview)
            /\ clearForm
            /\ PostsEffect(posts', ok)
            /\ last' = Ev("handleAddOrUpdate", "updated", TRUE)
            /\ UNCHANGED <<theme, storeTheme, readers>>
       ELSE /\ posts' = Prepend(NewPost(newId, title, comment, imagePreview, now), posts)
            /\ clearForm
            /\ PostsEffect(posts', ok)
            /\ last' = Ev("handleAddOrUpdate", "created", TRUE)
            /\ UNCHANGED <<theme, storeTheme, readers>>

\* posts.find((x) => x.id === postId): the first post with that id, if any
HasPost(ps, id) == \E i \in 1..Len(ps) : ps[i].id = id
\* the first post of the list taken, whatever its id
Find_Head(ps, id) == Head(ps)

Find(ps, id) == ps[CHOOSE i \in 1..Len(ps) :
                     ps[i].id = id /\ \A j \in 1..(i - 1) : ps[j].id # id]

\* startEdit.  The handler is modelled for any id, also one that names no post.
startEdit(postId) ==
    /\ crashed = "no"
    /\ Count
    /\ IF ~HasPost(posts, postId)
       THEN UNCHANGED <<editingId, title, comment, imagePreview>>
       ELSE LET p == Find(posts, postId) IN
            /\ editingId' = p.id
            /\ title' = p.title
            /\ comment' = p.comment
            /\ imagePreview' = p.imageDataUrl
    /\ last' = Ev("startEdit", postId, TRUE)
    /\ UNCHANGED <<posts, imageFile, theme, storePosts, storeTheme, readers, crashed>>

\* the posts that are kept, returned in the reverse order
Filter_Reversed(ps, id) ==
    LET kept == SelectSeq(ps, LAMBDA x : x.id # id)
    IN  [i \in 1..Len(kept) |-> kept[Len(kept) + 1 - i]]

\* p.filter((x) => x.id !== postId)
Filter(ps, id) == SelectSeq(ps, LAMBDA x : x.id # id)

\* removePost, with the posts effect that follows: filter returns a new array
\* whether or not it dropped a post.  confirmed is the answer to confirm().
removePost(postId, confirmed, ok) ==
    /\ crashed = "no"
    /\ Count
    /\ IF ~confirmed
       THEN UNCHANGED <<posts, storePosts, crashed>>
       ELSE /\ posts' = Filter(posts, postId)
            /\ PostsEffect(posts', ok)
    /\ last' = Ev("removePost", postId, confirmed)
    /\ UNCHANGED <<editingId, title, comment, imageFile, imagePreview, theme,
                   storeTheme, readers>>

----------------------------------------------------------------------------
(* Theme *)

\* setTheme((t) => (t === "light" ? "dark" : "light"))
Toggle(t) == IF t = "light" THEN "dark" ELSE "light"

\* the theme button, with the theme effect that follows
ToggleTheme(ok) ==
    /\ crashed = "no"
    /\ Count
    /\ theme' = Toggle(theme)
    /\ ThemeEffect(theme', ok)
    /\ last' = Ev("toggleTheme", Null, TRUE)
    /\ UNCHANGED <<posts, editingId, title, comment, imageFile, imagePreview,
                   storePosts, readers>>

----------------------------------------------------------------------------
(* The specification *)

Next ==
    \/ \E v \in TitleInputs : SetTitle(v)
    \/ \E v \in CommentInputs : SetComment(v)
    \/ \E e \in EMOJIS : handleEmojiClick(e)
    \/ \E f \in Files \cup {Null} : handleFileChange(f)
    \/ \E f \in Files : ReaderOnload(f)
    \/ \E f \in Files : ReaderError(f)
    \/ ClearImage
    \/ ClearFormClick
    \/ \E newId \in Ids, now \in Times, ok \in BOOLEAN : handleAddOrUpdate(newId, now, ok)
    \/ \E postId \in Ids : startEdit(postId)
    \/ \E postId \in Ids, confirmed \in BOOLEAN, ok \in BOOLEAN :
           removePost(postId, confirmed, ok)
    \/ \E ok \in BOOLEAN : ToggleTheme(ok)
    \/ \E okP \in BOOLEAN, okT \in BOOLEAN : Reload(okP, okT)

Spec == Init /\ [][Next]_vars

----------------------------------------------------------------------------
(* Claims *)

\* what a claim calls a valid draft: the trimmed comment is not empty or an image
\* is in the preview
ValidDraft == Trim(comment) # <<>> \/ imagePreview # Undefined

\* the title a valid submit is to store
ExpectedTitle == IF Trim(title) = <<>> THEN SinTitulo ELSE Trim(title)

\* C1: in every reachable state every Post in posts has a non-empty comment or a
\* present image.
C1_CommentOrImage ==
    \A i \in 1..Len(posts) :
        posts[i].comment # <<>> \/ posts[i].imageDataUrl # Undefined

\* a post of an image alone has just been created
C1_Witness ==
    /\ last.op = "handleAddOrUpdate" /\ last.arg = "created"
    /\ Head(posts).comment = <<>>
    /\ Head(posts).imageDataUrl # Undefined

\* C3: a valid submit in the Idle state makes posts the old posts with one new
\* Post in front: the length grows by one, the previous posts are as they were, in
\* their order, and the new Post carries the draft's trimmed comment, its title
\* and its image.
C3_IdleSubmitPrepends ==
    [][(last'.op = "handleAddOrUpdate" /\ editingId = Null /\ ValidDraft)
        => /\ Len(posts') = Len(posts) + 1
           /\ Tail(posts') = posts
           /\ Head(posts').comment = Trim(comment)
           /\ Head(posts').title = ExpectedTitle
           /\ Head(posts').imageDataUrl = imagePreview]_vars

\* a post has just been created in front of two older ones
C3_Witness ==
    /\ last.op = "handleAddOrUpdate" /\ last.arg = "created"
    /\ Len(posts) = 3
    /\ posts[2].id = "id2" /\ posts[3].id = "id1"

\* C4: an invalid submit, in the Idle and in the Editing state, changes neither
\* posts, nor the stored posts, nor editingId, nor a field of the draft.
C4_InvalidSubmitNoOp ==
    [][(last'.op = "handleAddOrUpdate" /\ ~ValidDraft)
        => UNCHANGED <<posts, storePosts, editingId, title, comment, imageFile,
                       imagePreview>>]_vars

\* a submit of a comment of white space alone has just been rejected while editing
C4_Witness ==
    /\ last.op = "handleAddOrUpdate" /\ last.arg = "rejected"
    /\ editingId # Null
    /\ comment = <<" ">>
    /\ title # <<>>

\* C5: a valid submit while editingId is set leaves the length of posts, gives the
\* Posts whose id is editingId the draft's title, comment and image and leaves
\* their id and createdAt, and leaves every other Post as it was, at its place;
\* when no Post has that id posts is as it was.
C5_EditInPlace ==
    [][(last'.op = "handleAddOrUpdate" /\ editingId # Null /\ ValidDraft)
        => /\ Len(posts') = Len(posts)
           /\ \A i \in 1..Len(posts) :
                IF posts[i].id = editingId
                THEN /\ posts'[i].id = posts[i].id
                     /\ posts'[i].createdAt = posts[i].createdAt
                     /\ posts'[i].title = ExpectedTitle
                     /\ posts'[i].comment = Trim(comment)
                     /\ posts'[i].imageDataUrl = imagePreview
                ELSE posts'[i] = posts[i]
           /\ (~HasPost(posts, editingId) => posts' = posts)]_vars

\* the second of two posts has just been given a new comment
C5_Witness ==
    /\ last.op = "handleAddOrUpdate" /\ last.arg = "updated"
    /\ Len(posts) = 2
    /\ posts[1].id = "id2" /\ posts[1].comment = <<"a">>
    /\ posts[2].id = "id1" /\ posts[2].comment = <<"fire">> /\ posts[2].createdAt = 1

\* C2: image attach is last-request-wins: the result of a reader whose file is no
\* longer the draft's raw selection is discarded and leaves the preview as it was.
C2_StaleResultDiscarded ==
    [][(last'.op = "onload" /\ last'.arg # imageFile)
        => imagePreview' = imagePreview]_vars

\* C6: removePost(id) with the confirmation accepted removes exactly the one Post
\* with that id and keeps all the others, as they were and in their order; with the
\* confirmation declined, and for an id that is not in posts, posts is as it was.
C6_RemovesExactlyOne ==
    [][last'.op = "removePost"
        => IF last'.flag /\ HasPost(posts, last'.arg)
           THEN \E k \in 1..Len(posts) :
                   /\ posts[k].id = last'.arg
                   /\ posts' = SubSeq(posts, 1, k - 1) \o SubSeq(posts, k + 1, Len(posts))
           ELSE posts' = posts]_vars

\* C7: once a submit, an edit or a delete has run, with the effects it triggers,
\* the store holds under the posts key the serialization of posts, and a fresh
\* instance started from that store loads the posts of posts, in their order.
C7_StoreHoldsPosts ==
    (last.op \in {"handleAddOrUpdate", "removePost"})
        => /\ storePosts = Stringify(posts)
           /\ LoadPosts(storePosts) = posts

\* C8: whatever the store holds under the posts key, the startup ends without a
\* crash, with posts the stored list when it is one and the empty list otherwise.
C8_StartupFailSoft ==
    last.op = "load"
        => /\ crashed # "render"
           /\ posts = IF storePosts.kind = "array" THEN Parse(storePosts) ELSE <<>>

\* C9: a persistence write that fails does not crash the application: a step that
\* changes posts or theme, and so triggers a write, leaves the application running,
\* with every operation still enabled.
C9_WriteFailureRecoverable ==
    [][(posts' # posts \/ theme' # theme) => crashed' = "no"]_vars

\* C10: in every reachable state of the running application editingId is not set
\* or is the id of a Post that is in posts.
C10_EditingIdInPosts ==
    crashed = "no" => (editingId = Null \/ HasPost(posts, editingId))


\* C11: every valid submit, from Idle and from Editing, ends in the Idle state with
\* an empty draft: editingId is not set, title and comment are empty, the raw image
\* selection and the preview are absent.
C11_ValidSubmitClearsDraft ==
    [][(last'.op = "handleAddOrUpdate" /\ ValidDraft)
        => /\ editingId' = Null
           /\ title' = <<>>
           /\ comment' = <<>>
           /\ imageFile' = Null
           /\ imagePreview' = Undefined]_vars

\* an edit has just been submitted and the form is empty, while the reader of the
\* file that was selected is still at work
C11_Witness ==
    /\ last.op = "handleAddOrUpdate" /\ last.arg = "updated"
    /\ editingId = Null /\ title = <<>> /\ comment = <<>>
    /\ imageFile = Null /\ imagePreview = Undefined
    /\ readers # {}

\* C12: clearForm, in the Idle and in the Editing state, resets title, comment, raw
\* image selection, preview and editingId and leaves posts and theme as they were.
C12_ClearFormResetsDraft ==
    [][last'.op = "clearForm"
        => /\ title' = <<>> /\ comment' = <<>>
           /\ imageFile' = Null /\ imagePreview' = Undefined
           /\ editingId' = Null
           /\ UNCHANGED <<posts, theme, storePosts, storeTheme>>]_vars

\* an edit of a post has just been abandoned through clearForm, with a file selected
C12_Witness ==
    /\ last.op = "clearForm" /\ last.arg # Null
    /\ editingId = Null /\ imageFile = Null
    /\ readers # {}
    /\ Len(posts) = 2

\* C13: startEdit(id) for an id that is not in posts changes nothing; for an id in
\* posts it sets editingId to that id and the draft's title, comment and preview to
\* the title, comment and image of a Post with that id, and leaves posts, theme and
\* the raw file selection as they were.
C13_StartEditCopiesPost ==
    [][last'.op = "startEdit"
        => IF \A k \in 1..Len(posts) : posts[k].id # last'.arg
           THEN UNCHANGED <<posts, editingId, title, comment, imageFile, imagePreview,
                            theme, storePosts, storeTheme, readers>>
           ELSE /\ editingId' = last'.arg
                /\ \E k \in 1..Len(posts) :
                      /\ posts[k].id = last'.arg
                      /\ title' = posts[k].title
                      /\ comment' = posts[k].comment
                      /\ imagePreview' = posts[k].imageDataUrl
                /\ UNCHANGED <<posts, theme, imageFile>>]_vars

\* the second post has just been taken into the form while a file is selected
C13_Witness ==
    /\ last.op = "startEdit" /\ last.arg = "id1"
    /\ editingId = "id1"
    /\ title = SinTitulo /\ comment = <<>> /\ imagePreview = Encode("f1")
    /\ imageFile = "f2"


\* C14: theme is one of light and dark in every reachable state of the running
\* application, whatever the store holds under the theme key at startup.
C14_ThemeLightOrDark == crashed = "no" => theme \in {"light", "dark"}

\* C15: the theme toggle flips theme between light and dark and writes the new value
\* to the store, leaving posts, the draft and editingId as they were; a second
\* toggle then restores the theme and the stored value.
C15_ToggleFlipsAndWrites ==
    [][last'.op = "toggleTheme"
        => /\ {theme, theme'} = {"light", "dark"}
           /\ storeTheme' = theme'
           /\ UNCHANGED <<posts, editingId, title, comment, imageFile,
                          imagePreview>>]_vars

\* C16: in every reachable state of the running application no two Posts in posts
\* have the same id.
C16_IdsUnique ==
    crashed = "no" => \A i, j \in 1..Len(posts) : posts[i].id = posts[j].id => i = j


\* a is b with some of its elements left out
RECURSIVE IsSubseq(_, _)
IsSubseq(a, b) ==
    IF a = <<>> THEN TRUE
    ELSE IF b = <<>> THEN FALSE
    ELSE \/ Head(a) = Head(b) /\ IsSubseq(Tail(a), Tail(b))
         \/ IsSubseq(a, Tail(b))

\* C17: at every step of an operation posts changes only by a valid submit or a
\* confirmed delete, and the Posts present before and after keep their order: an
\* insert puts the new Post in front of the others, an edit leaves every Post at its
\* place, a delete leaves the remaining Posts as they were and in their order, and
\* any other operation leaves posts as it was.
C17_OrderKept ==
    [][last'.op # "load"
        => \/ posts' = posts
           \/ /\ last'.op = "handleAddOrUpdate" /\ ValidDraft /\ editingId = Null
              /\ Len(posts') = Len(posts) + 1
              /\ Tail(posts') = posts
           \/ /\ last'.op = "handleAddOrUpdate" /\ ValidDraft /\ editingId # Null
              /\ Len(posts') = Len(posts)
              /\ \A i \in 1..Len(posts) :
                    /\ posts'[i].id = posts[i].id
                    /\ posts'[i].createdAt = posts[i].createdAt
           \/ /\ last'.op = "removePost" /\ last'.flag
              /\ IsSubseq(posts', posts)]_vars

\* one of three posts has just been deleted: the new one and the oldest remain
C17_Witness ==
    /\ last.op = "removePost" /\ last.arg = "id2" /\ last.flag
    /\ Len(posts) = 2
    /\ posts[1].comment = <<"fire">>
    /\ posts[2].comment = <<>> /\ posts[2].createdAt = 1

\* C18: emoji append with token e makes the draft's comment the old comment followed
\* by e, also when the comment ends with e already, and leaves title, preview, raw
\* image selection, editingId and posts as they were, in the Idle and in the Editing
\* state.
C18_EmojiAppended ==
    [][last'.op = "handleEmojiClick"
        => /\ comment' = comment \o <<last'.arg>>
           /\ UNCHANGED <<title, imagePreview, imageFile, editingId, posts>>]_vars

\* the same emoji has just been appended a second time, while editing
C18_Witness ==
    /\ last.op = "handleEmojiClick" /\ last.arg = "fire"
    /\ editingId = "id2"
    /\ comment = <<"a", "fire", "fire">>

\* C19: the title a valid submit stores, on create and on edit, is the draft title
\* without its leading and trailing white space, or the placeholder when nothing is
\* left of it; it is never empty and neither starts nor ends with white space.
C19_StoredTitle ==
    [][(last'.op = "handleAddOrUpdate" /\ ValidDraft)
        => /\ editingId = Null => Head(posts').title = ExpectedTitle
           /\ editingId # Null =>
                \A i \in 1..Len(posts) :
                    posts[i].id = editingId => posts'[i].title = ExpectedTitle
           /\ ExpectedTitle # <<>>
           /\ Head(ExpectedTitle) # " "
           /\ ExpectedTitle[Len(ExpectedTitle)] # " "]_vars

\* a first post has just been created from a title typed with white space around it
C19_Witness ==
    /\ last.op = "handleAddOrUpdate" /\ last.arg = "created"
    /\ Len(posts) = 1
    /\ posts[1].title = <<"a">>

\* C20: in the Idle state a valid submit made while the draft holds a raw image
\* selection creates a Post whose image is the encoding of the selected file.
C20_SubmitCarriesSelectedImage ==
    [][(last'.op = "handleAddOrUpdate" /\ ValidDraft /\ editingId = Null
        /\ imageFile # Null)
        => Head(posts').imageDataUrl = Encode(imageFile)]_vars

====
